---- MODULE Spec2Model ----
(***************************************************************************)
(* A model of main.py of pubmed-paper-fetcher: the pipeline                *)
(*   fetch_pubmed_ids -> fetch_paper_details -> save_to_csv | print        *)
(* run by main() inside one try/except block.                              *)
(*                                                                         *)
(* Python values are modelled as follows.                                  *)
(*   str        a sequence of one-character strings, "" is << >>,          *)
(*              wrapped by Str(_) wherever None is also possible           *)
(*   None       the record None                                            *)
(*   dict       a function whose DOMAIN is the set of keys present         *)
(*   list       a sequence                                                 *)
(* The Paper dict literal keeps its insertion order, so a Paper is a       *)
(* sequence of <<key, value>> pairs.                                       *)
(***************************************************************************)
EXTENDS Integers, Sequences, FiniteSets, TLC

(***************************************************************************)
(* Bounds of the model.                                                    *)
(***************************************************************************)
MaxIds == 2
MaxAuthors == 2

(***************************************************************************)
(* Optional[str]                                                           *)
(***************************************************************************)
None == [isNone |-> TRUE]
Str(s) == [isNone |-> FALSE, s |-> s]
IsNone(v) == v.isNone

\* bool(v) of an Optional[str]: None and '' are falsy.
Truthy(v) == ~IsNone(v) /\ v.s # << >>

\* Mutant of OrNone: the `or None` left out.
OrNoneOmitted(v) == v

\* `x or None` (lines 62-64)
OrNone(v) == IF Truthy(v) THEN v ELSE None

\* dict.get(key, default)
Get(d, k, default) == IF k \in DOMAIN d THEN d[k] ELSE default

EmptyDict == << >>

(***************************************************************************)
(* Case-insensitive matching of re.search(..., re.I), on ASCII letters.    *)
(***************************************************************************)
UpperLetters == <<"A","B","C","D","E","F","G","H","I","J","K","L","M",
                  "N","O","P","Q","R","S","T","U","V","W","X","Y","Z">>
LowerLetters == <<"a","b","c","d","e","f","g","h","i","j","k","l","m",
                  "n","o","p","q","r","s","t","u","v","w","x","y","z">>

\* The lower-case letter of each upper-case letter.
LowerOf ==
    [c \in {UpperLetters[n] : n \in DOMAIN UpperLetters} |->
        LowerLetters[CHOOSE n \in DOMAIN UpperLetters : UpperLetters[n] = c]]

Lower(c) == IF c \in DOMAIN LowerOf THEN LowerOf[c] ELSE c

\* Mutant of CharMatchI: the pattern compiled without re.I.
CharMatchExact(p, c) == p = c

\* Two characters match under re.I.
CharMatchI(p, c) == Lower(p) = Lower(c)

\* The alternatives of the pattern r'university|college|institute|lab|school',
\* in the order the regex engine tries them.
Alternatives ==
    << <<"u","n","i","v","e","r","s","i","t","y">>,
       <<"c","o","l","l","e","g","e">>,
       <<"i","n","s","t","i","t","u","t","e">>,
       <<"l","a","b">>,
       <<"s","c","h","o","o","l">> >>

\* Does the literal `lit` match text starting at position pos, char by char?
RECURSIVE MatchLiteralAt(_, _, _, _)
MatchLiteralAt(lit, text, pos, k) ==
    IF k > Len(lit) THEN TRUE
    ELSE IF pos + k - 1 > Len(text) THEN FALSE
    ELSE IF ~CharMatchI(lit[k], text[pos + k - 1]) THEN FALSE
    ELSE MatchLiteralAt(lit, text, pos, k + 1)

\* The alternation at one position: the first alternative that matches.
RECURSIVE MatchAlternationAt(_, _, _)
MatchAlternationAt(text, pos, a) ==
    IF a > Len(Alternatives) THEN FALSE
    ELSE IF MatchLiteralAt(Alternatives[a], text, pos, 1) THEN TRUE
    ELSE MatchAlternationAt(text, pos, a + 1)

\* re.search scans the start positions left to right, 1 .. Len(text)+1.
RECURSIVE ScanFrom(_, _)
ScanFrom(text, pos) ==
    IF pos > Len(text) + 1 THEN FALSE
    ELSE IF MatchAlternationAt(text, pos, 1) THEN TRUE
    ELSE ScanFrom(text, pos + 1)

\* re.search(r'university|college|institute|lab|school', text, re.I) is not None
re_search(text) == ScanFrom(text, 1)

(***************************************************************************)
(* sep.join(parts) for a list of str.                                      *)
(***************************************************************************)
RECURSIVE join(_, _)
join(sep, parts) ==
    IF parts = << >> THEN << >>
    ELSE IF Len(parts) = 1 THEN parts[1]
    ELSE parts[1] \o sep \o join(sep, Tail(parts))

SemicolonSpace == <<";", " ">>
Comma == <<",">>

(***************************************************************************)
(* The strings the external services may send, each spelled out as its     *)
(* characters.                                                             *)
(***************************************************************************)
Id7 == <<"7">>
Id8 == <<"8">>
Ids == {Id7, Id8}

TitleX == <<"X">>
TitleY == <<"Y">>
Date2020 == <<"2","0","2","0">>
Doi == <<"d","o","i">>

AcmeInc == <<"A","c","m","e"," ","I","n","c">>
MITUniversity == <<"M","I","T"," ","U","n","i","v","e","r","s","i","t","y">>
ELABORATION == <<"E","L","A","B","O","R","A","T","I","O","N">>
Colleg == <<"C","o","l","l","e","g">>

\* AuthorRecord dicts as they come out of response.json(); a key may be
\* absent, and "affiliation" may be JSON null.
AuthorDoe == ("name" :> Str(<<"D","o","e">>)) @@ ("affiliation" :> Str(AcmeInc))
AuthorSmith == ("name" :> Str(<<"S","m","i","t","h">>)) @@ ("affiliation" :> Str(MITUniversity))
AuthorLee == ("name" :> Str(<<"L","e","e">>))
AuthorWu == ("name" :> Str(<<"W","u">>)) @@ ("affiliation" :> Str(<< >>))
AuthorRoy == ("name" :> Str(<<"R","o","y">>)) @@ ("affiliation" :> Str(ELABORATION))
AuthorAnon == ("affiliation" :> Str(Colleg))
AuthorNull == ("name" :> Str(<<"N">>)) @@ ("affiliation" :> None)

AuthorPool ==
    {AuthorDoe, AuthorSmith, AuthorLee, AuthorWu, AuthorRoy, AuthorAnon,
     AuthorNull}

\* All sequences over S of length at most n.
SeqsUpTo(S, n) == UNION {[1..m -> S] : m \in 0..n}

\* Summaries with few authors, used for responses that cover several ids.
SummaryEmpty == EmptyDict
SummaryFull ==
    ("title" :> Str(TitleX)) @@ ("pubdate" :> Str(Date2020))
      @@ ("authors" :> <<AuthorDoe>>) @@ ("elocationid" :> Str(Doi))
SummaryNoAuthors ==
    ("title" :> Str(TitleX)) @@ ("pubdate" :> Str(Date2020))
      @@ ("authors" :> << >>) @@ ("elocationid" :> Str(<< >>))
SummaryAcademic == ("title" :> Str(TitleY)) @@ ("authors" :> <<AuthorSmith>>)

ShallowSummaries == {SummaryEmpty, SummaryFull, SummaryNoAuthors, SummaryAcademic}

\* Summaries with every author list up to MaxAuthors.
DeepSummaries ==
    { ("title" :> Str(TitleX)) @@ ("pubdate" :> Str(Date2020))
        @@ ("authors" :> as) @@ ("elocationid" :> Str(Doi))
      : as \in SeqsUpTo(AuthorPool, MaxAuthors) }

\* The 'result' object of the esummary response: a dict keyed by id.
ResultObjects ==
    UNION {[D -> ShallowSummaries] : D \in SUBSET Ids}
      \cup {Id7 :> s : s \in DeepSummaries}

(***************************************************************************)
(* What requests.get can produce: it raises (transport failure, no status) *)
(* or it returns a response with a status code and a body that is valid    *)
(* JSON or not.                                                            *)
(***************************************************************************)
TransportFailure ==
    [raises |-> TRUE, status |-> 0, valid_json |-> FALSE, body |-> EmptyDict]
Response(status, valid, body) ==
    [raises |-> FALSE, status |-> status, valid_json |-> valid, body |-> body]
BadStatus == Response(500, TRUE, EmptyDict)
NotJson == Response(200, FALSE, EmptyDict)

SearchBodies ==
    {EmptyDict, "esearchresult" :> EmptyDict}
      \cup {"esearchresult" :> ("idlist" :> l) : l \in SeqsUpTo(Ids, MaxIds)}

SearchResponses ==
    {TransportFailure, BadStatus, NotJson}
      \cup {Response(200, TRUE, b) : b \in SearchBodies}

SummaryBodies == {EmptyDict} \cup {"result" :> r : r \in ResultObjects}

SummaryResponses ==
    {TransportFailure, BadStatus, NotJson}
      \cup {Response(200, TRUE, b) : b \in SummaryBodies}

\* Command lines: -f FILE or not, -d or not.
OutCsv == <<"o",".","c","s","v">>
ArgsSet == [file : {None, Str(OutCsv)}, debug : BOOLEAN]

(***************************************************************************)
(* Paper dicts (lines 58-65) and the csv module's view of them.            *)
(***************************************************************************)
\* Mutant of MakePaper: the companies field joins the names list.
MakePaperNamesTwice(pid, t, d, names, comps, mail) ==
    << <<"PubmedID", Str(pid)>>,
       <<"Title", t>>,
       <<"Publication Date", d>>,
       <<"Non-academic Author(s)", OrNone(Str(join(SemicolonSpace, names)))>>,
       <<"Company Affiliation(s)", OrNone(Str(join(SemicolonSpace, names)))>>,
       <<"Corresponding Author Email", OrNone(mail)>> >>

\* Mutant of MakePaper: the email is stored without `or None`.
MakePaperRawEmail(pid, t, d, names, comps, mail) ==
    << <<"PubmedID", Str(pid)>>,
       <<"Title", t>>,
       <<"Publication Date", d>>,
       <<"Non-academic Author(s)", OrNone(Str(join(SemicolonSpace, names)))>>,
       <<"Company Affiliation(s)", OrNone(Str(join(SemicolonSpace, comps)))>>,
       <<"Corresponding Author Email", mail>> >>

\* The dict literal of lines 58-65, keys in insertion order.
MakePaper(pid, t, d, names, comps, mail) ==
    << <<"PubmedID", Str(pid)>>,
       <<"Title", t>>,
       <<"Publication Date", d>>,
       <<"Non-academic Author(s)", OrNone(Str(join(SemicolonSpace, names)))>>,
       <<"Company Affiliation(s)", OrNone(Str(join(SemicolonSpace, comps)))>>,
       <<"Corresponding Author Email", OrNone(mail)>> >>

\* paper.keys(), in insertion order
Keys(paper) == [n \in 1..Len(paper) |-> paper[n][1]]

\* paper[key]
Field(paper, key) == paper[CHOOSE n \in 1..Len(paper) : paper[n][1] = key][2]

\* The text the csv writer emits for one value: None becomes ''.
Cell(v) == IF IsNone(v) THEN << >> ELSE v.s

\* DictWriter.writerow: the values in the order of fieldnames.
CsvRow(names, paper) == [n \in 1..Len(names) |-> Cell(Field(paper, names[n]))]

(***************************************************************************)
(* Exceptions.  `except Exception` (line 105) catches the subclasses of    *)
(* Exception; SystemExit derives from BaseException only.                  *)
(***************************************************************************)
NoExc == [cls |-> "none"]
Exc(c) == [cls |-> c]
SystemExit(code) == [cls |-> "SystemExit", code |-> code]

ExceptionSubclasses ==
    {"ConnectionError", "HTTPError", "JSONDecodeError", "TypeError",
     "IndexError", "OSError"}

\* Mutant of CaughtByExceptException: a bare `except:`.
CaughtByBareExcept(e) == TRUE

CaughtByExceptException(e) == e.cls \in ExceptionSubclasses

(***************************************************************************)
(* Logging: a record reaches the log when its level is at least the        *)
(* logger's level (INFO after line 9, DEBUG after line 84).                *)
(***************************************************************************)
LevelNo(l) ==
    CASE l = "DEBUG" -> 10 [] l = "INFO" -> 20 [] l = "WARNING" -> 30
      [] l = "ERROR" -> 40

Emit(lg, level, l, msg) ==
    IF LevelNo(l) >= LevelNo(level) THEN Append(lg, <<l, msg>>) ELSE lg

(***************************************************************************)
(* State                                                                   *)
(***************************************************************************)
VARIABLES
    args,                  \* parsed command line
    logger_level,          \* level of `logger`
    pc,                    \* position of the interpreter in main()
    exc,                   \* the exception being propagated, or NoExc
    exit_status,           \* << >> while running, <<code>> once exited
    ids,                   \* main: ids / fetch_paper_details: paper_ids
    summaries,             \* fetch_paper_details: summaries
    papers,                \* fetch_paper_details: papers / main: papers
    i,                     \* index of pid in the loop of line 41
    title, pubdate, authors, email,      \* locals of the loop body
    j,                     \* index of author in the loop of line 51
    non_academic_authors, companies,     \* locals of the loop body
    fieldnames,            \* DictWriter.fieldnames
    k,                     \* index of the record being written or printed
    handle,                \* csvfile: "none", "open" or "closed"
    file,                  \* the output file on disk
    stdout,                \* what print() has written
    log,                   \* the records logged
    requests               \* the HTTP requests issued, in order

vars ==
    <<args, logger_level, pc, exc, exit_status, ids, summaries, papers, i,
      title, pubdate, authors, email, j, non_academic_authors, companies,
      fieldnames, k, handle, file, stdout, log, requests>>

detailLocals == <<title, pubdate, authors, email, j, non_academic_authors, companies>>
sinkVars == <<fieldnames, k, handle, file, stdout>>

NoFile == [exists |-> FALSE]
FileWith(rows) == [exists |-> TRUE, rows |-> rows]

Init ==
    /\ args \in ArgsSet
    /\ logger_level = "INFO"
    /\ pc = "main"
    /\ exc = NoExc
    /\ exit_status = << >>
    /\ ids = << >>
    /\ summaries = EmptyDict
    /\ papers = << >>
    /\ i = 1
    /\ title = None
    /\ pubdate = None
    /\ authors = << >>
    /\ email = None
    /\ j = 1
    /\ non_academic_authors = << >>
    /\ companies = << >>
    /\ fieldnames = << >>
    /\ k = 1
    /\ handle = "none"
    /\ file = NoFile
    /\ stdout = << >>
    /\ log = << >>
    /\ requests = << >>

\* One entry of the history of HTTP exchanges: the endpoint, the 'id'
\* parameter, and what came back on the wire.
Sent(url, id, resp) ==
    [url |-> url, id |-> id, raises |-> resp.raises, status |-> resp.status]

\* raise e, inside the try block of main
Raise(e) == pc' = "raised" /\ exc' = e

\* Mutant of ResponseError: raise_for_status() left out.
ResponseErrorNoStatusCheck(resp) ==
    IF resp.raises THEN Exc("ConnectionError")
    ELSE IF ~resp.valid_json THEN Exc("JSONDecodeError")
    ELSE NoExc

\* The exception, if any, that requests.get / raise_for_status / json()
\* raise for a response (lines 24-26 and 36-38).
ResponseError(resp) ==
    IF resp.raises THEN Exc("ConnectionError")
    ELSE IF resp.status >= 400 THEN Exc("HTTPError")
    ELSE IF ~resp.valid_json THEN Exc("JSONDecodeError")
    ELSE NoExc

(***************************************************************************)
(* main(), lines 81-87: the level is raised under -d and the first info    *)
(* record is logged.                                                       *)
(***************************************************************************)
main_begin ==
    /\ pc = "main"
    /\ LET lvl == IF args.debug THEN "DEBUG" ELSE "INFO" IN
         /\ logger_level' = lvl
         /\ log' = Emit(log, lvl, "INFO", "Fetching PubMed IDs for query")
    /\ pc' = "fetch_pubmed_ids"
    /\ UNCHANGED <<args, exc, exit_status, ids, summaries, papers, i,
                   detailLocals, sinkVars, requests>>

(***************************************************************************)
(* fetch_pubmed_ids (lines 17-27) and, when it returns, lines 89-91.       *)
(***************************************************************************)
fetch_pubmed_ids ==
    /\ pc = "fetch_pubmed_ids"
    /\ \E resp \in SearchResponses :
         /\ requests' = Append(requests, Sent("esearch", << >>, resp))
         /\ IF ResponseError(resp) # NoExc
            THEN /\ Raise(ResponseError(resp))
                 /\ UNCHANGED <<ids, log>>
            ELSE /\ ids' = Get(Get(resp.body, "esearchresult", EmptyDict),
                               "idlist", << >>)
                 /\ log' = Emit(Emit(log, logger_level, "DEBUG", "Found PubMed IDs"),
                                logger_level, "INFO", "Fetching paper details")
                 /\ pc' = "fetch_paper_details"
                 /\ UNCHANGED exc
    /\ UNCHANGED <<args, logger_level, exit_status, summaries, papers, i,
                   detailLocals, sinkVars>>

(***************************************************************************)
(* fetch_paper_details, lines 30-40: one request for all the ids.          *)
(***************************************************************************)
fetch_paper_details ==
    /\ pc = "fetch_paper_details"
    /\ \E resp \in SummaryResponses :
         /\ requests' = Append(requests, Sent("esummary", join(Comma, ids), resp))
         /\ IF ResponseError(resp) # NoExc
            THEN /\ Raise(ResponseError(resp))
                 /\ UNCHANGED <<summaries, papers, i>>
            ELSE /\ summaries' = Get(resp.body, "result", EmptyDict)
                 /\ papers' = << >>
                 /\ i' = 1
                 /\ pc' = "for_pid"
                 /\ UNCHANGED exc
    /\ UNCHANGED <<args, logger_level, exit_status, ids, detailLocals,
                   sinkVars, log>>

(***************************************************************************)
(* Lines 41-49: the next pid and the locals read from its summary; when    *)
(* the ids are exhausted the function returns (line 67).                   *)
(***************************************************************************)
for_pid ==
    /\ pc = "for_pid"
    /\ IF i > Len(ids)
       THEN /\ pc' = "returned"
            /\ UNCHANGED detailLocals
       ELSE LET summary == Get(summaries, ids[i], EmptyDict) IN
            /\ title' = Get(summary, "title", None)
            /\ pubdate' = Get(summary, "pubdate", None)
            /\ authors' = Get(summary, "authors", << >>)
            /\ non_academic_authors' = << >>
            /\ companies' = << >>
            /\ email' = Get(summary, "elocationid", Str(<< >>))
            /\ j' = 1
            /\ pc' = "for_author"
    /\ UNCHANGED <<args, logger_level, exc, exit_status, ids, summaries,
                   papers, i, sinkVars, log, requests>>

(***************************************************************************)
(* Lines 51-56: one author.  re.search raises TypeError when affiliation   *)
(* is None.                                                                *)
(***************************************************************************)
for_author ==
    /\ pc = "for_author"
    /\ j <= Len(authors)
    /\ LET author == authors[j]
           name == Get(author, "name", Str(<< >>))
           affiliation == Get(author, "affiliation", Str(<< >>))
       IN IF IsNone(affiliation)
          THEN /\ Raise(Exc("TypeError"))
               /\ UNCHANGED <<j, non_academic_authors, companies>>
          ELSE /\ IF ~re_search(affiliation.s)
                  THEN /\ non_academic_authors' = Append(non_academic_authors, name.s)
                       /\ companies' = Append(companies, affiliation.s)
                  ELSE UNCHANGED <<non_academic_authors, companies>>
               /\ j' = j + 1
               /\ UNCHANGED <<pc, exc>>
    /\ UNCHANGED <<args, logger_level, exit_status, ids, summaries, papers, i,
                   title, pubdate, authors, email, sinkVars, log, requests>>

\* Mutant of append_paper: an id without a summary yields no record.
append_paper_skip_missing ==
    /\ pc = "for_author"
    /\ j > Len(authors)
    /\ papers' = IF ids[i] \in DOMAIN summaries
                 THEN Append(papers, MakePaper(ids[i], title, pubdate,
                                               non_academic_authors, companies, email))
                 ELSE papers
    /\ i' = i + 1
    /\ pc' = "for_pid"
    /\ UNCHANGED <<args, logger_level, exc, exit_status, ids, summaries,
                   detailLocals, sinkVars, log, requests>>

(***************************************************************************)
(* Lines 58-65: the record of the current pid is appended.                 *)
(***************************************************************************)
append_paper ==
    /\ pc = "for_author"
    /\ j > Len(authors)
    /\ papers' = Append(papers, MakePaper(ids[i], title, pubdate,
                                          non_academic_authors, companies, email))
    /\ i' = i + 1
    /\ pc' = "for_pid"
    /\ UNCHANGED <<args, logger_level, exc, exit_status, ids, summaries,
                   detailLocals, sinkVars, log, requests>>

\* Mutant of main_dispatch: the `if not papers` check left out.
main_dispatch_unchecked ==
    /\ pc = "returned"
    /\ IF Truthy(args.file)
       THEN /\ log' = Emit(log, logger_level, "INFO", "Saving results")
            /\ pc' = "save_to_csv"
            /\ UNCHANGED <<exc, k>>
       ELSE /\ pc' = "print"
            /\ k' = 1
            /\ UNCHANGED <<exc, log>>
    /\ UNCHANGED <<args, logger_level, exit_status, ids, summaries, papers, i,
                   detailLocals, fieldnames, handle, file, stdout, requests>>

(***************************************************************************)
(* main(), lines 94-101, once fetch_paper_details has returned.            *)
(* sys.exit(0) raises SystemExit(0) inside the try block.                  *)
(***************************************************************************)
main_dispatch ==
    /\ pc = "returned"
    /\ IF papers = << >>
       THEN /\ log' = Emit(log, logger_level, "WARNING", "No papers found.")
            /\ Raise(SystemExit(0))
            /\ UNCHANGED k
       ELSE IF Truthy(args.file)
       THEN /\ log' = Emit(log, logger_level, "INFO", "Saving results")
            /\ pc' = "save_to_csv"
            /\ UNCHANGED <<exc, k>>
       ELSE /\ pc' = "print"
            /\ k' = 1
            /\ UNCHANGED <<exc, log>>
    /\ UNCHANGED <<args, logger_level, exit_status, ids, summaries, papers, i,
                   detailLocals, fieldnames, handle, file, stdout, requests>>

(***************************************************************************)
(* save_to_csv, line 70: open(filename, 'w') creates or truncates the      *)
(* file, or raises OSError.                                                *)
(***************************************************************************)
save_open ==
    /\ pc = "save_to_csv"
    /\ \E ok \in BOOLEAN :
         IF ok
         THEN /\ handle' = "open"
              /\ file' = FileWith(<< >>)
              /\ pc' = "writeheader"
              /\ UNCHANGED exc
         ELSE /\ Raise(Exc("OSError"))
              /\ UNCHANGED <<handle, file>>
    /\ UNCHANGED <<args, logger_level, exit_status, ids, summaries, papers, i,
                   detailLocals, fieldnames, k, stdout, log, requests>>

(***************************************************************************)
(* Lines 71-72: fieldnames are the keys of papers[0] (IndexError on an     *)
(* empty list) and the header is written.  An exception leaves the with    *)
(* block, which closes the file.                                           *)
(***************************************************************************)
save_header ==
    /\ pc = "writeheader"
    /\ IF papers = << >>
       THEN /\ Raise(Exc("IndexError"))
            /\ handle' = "closed"
            /\ UNCHANGED <<fieldnames, file, k>>
       ELSE \E ok \in BOOLEAN :
            /\ fieldnames' = Keys(papers[1])
            /\ IF ok
               THEN /\ file' = FileWith(Append(file.rows, Keys(papers[1])))
                    /\ k' = 1
                    /\ pc' = "writerows"
                    /\ UNCHANGED <<exc, handle>>
               ELSE /\ Raise(Exc("OSError"))
                    /\ handle' = "closed"
                    /\ UNCHANGED <<file, k>>
    /\ UNCHANGED <<args, logger_level, exit_status, ids, summaries, papers, i,
                   detailLocals, stdout, log, requests>>

\* Mutant of save_row: the file opened without `with`, so a failed write
\* leaves it open.
save_row_unscoped ==
    /\ pc = "writerows"
    /\ k <= Len(papers)
    /\ \E ok \in BOOLEAN :
         IF ok
         THEN /\ file' = FileWith(Append(file.rows, CsvRow(fieldnames, papers[k])))
              /\ k' = k + 1
              /\ UNCHANGED <<pc, exc, handle>>
         ELSE /\ Raise(Exc("OSError"))
              /\ UNCHANGED <<handle, file, k>>
    /\ UNCHANGED <<args, logger_level, exit_status, ids, summaries, papers, i,
                   detailLocals, fieldnames, stdout, log, requests>>

(***************************************************************************)
(* Line 73: writerows writes the records in order; a write may fail.       *)
(***************************************************************************)
save_row ==
    /\ pc = "writerows"
    /\ k <= Len(papers)
    /\ \E ok \in BOOLEAN :
         IF ok
         THEN /\ file' = FileWith(Append(file.rows, CsvRow(fieldnames, papers[k])))
              /\ k' = k + 1
              /\ UNCHANGED <<pc, exc, handle>>
         ELSE /\ Raise(Exc("OSError"))
              /\ handle' = "closed"
              /\ UNCHANGED <<file, k>>
    /\ UNCHANGED <<args, logger_level, exit_status, ids, summaries, papers, i,
                   detailLocals, fieldnames, stdout, log, requests>>

\* The end of the with block: the file is closed and save_to_csv returns.
save_close ==
    /\ pc = "writerows"
    /\ k > Len(papers)
    /\ handle' = "closed"
    /\ pc' = "try_done"
    /\ UNCHANGED <<args, logger_level, exc, exit_status, ids, summaries,
                   papers, i, detailLocals, fieldnames, k, file, stdout, log,
                   requests>>

(***************************************************************************)
(* Lines 102-103: print(paper); writing to stdout may fail.                *)
(***************************************************************************)
print_paper ==
    /\ pc = "print"
    /\ k <= Len(papers)
    /\ \E ok \in BOOLEAN :
         IF ok
         THEN /\ stdout' = Append(stdout, papers[k])
              /\ k' = k + 1
              /\ UNCHANGED <<pc, exc>>
         ELSE /\ Raise(Exc("OSError"))
              /\ UNCHANGED <<stdout, k>>
    /\ UNCHANGED <<args, logger_level, exit_status, ids, summaries, papers, i,
                   detailLocals, fieldnames, handle, file, log, requests>>

print_done ==
    /\ pc = "print"
    /\ k > Len(papers)
    /\ pc' = "try_done"
    /\ UNCHANGED <<args, logger_level, exc, exit_status, ids, summaries,
                   papers, i, detailLocals, sinkVars, log, requests>>

\* main() returns without an exception: the interpreter exits with 0.
main_return ==
    /\ pc = "try_done"
    /\ pc' = "exited"
    /\ exit_status' = <<0>>
    /\ UNCHANGED <<args, logger_level, exc, ids, summaries, papers, i,
                   detailLocals, sinkVars, log, requests>>

(***************************************************************************)
(* Lines 105-107: the handler logs the error and calls sys.exit(1).        *)
(***************************************************************************)
except_handler ==
    /\ pc = "raised"
    /\ CaughtByExceptException(exc)
    /\ log' = Emit(log, logger_level, "ERROR", "An error occurred")
    /\ exc' = SystemExit(1)
    /\ pc' = "exited"
    /\ exit_status' = <<1>>
    /\ UNCHANGED <<args, logger_level, ids, summaries, papers, i,
                   detailLocals, sinkVars, requests>>

\* An exception that line 105 does not catch leaves main(): SystemExit ends
\* the process with its code.
propagate ==
    /\ pc = "raised"
    /\ ~CaughtByExceptException(exc)
    /\ pc' = "exited"
    /\ exit_status' = <<exc.code>>
    /\ UNCHANGED <<args, logger_level, exc, ids, summaries, papers, i,
                   detailLocals, sinkVars, log, requests>>

Next ==
    \/ main_begin
    \/ fetch_pubmed_ids
    \/ fetch_paper_details
    \/ for_pid
    \/ for_author
    \/ append_paper
    \/ main_dispatch
    \/ save_open
    \/ save_header
    \/ save_row
    \/ save_close
    \/ print_paper
    \/ print_done
    \/ main_return
    \/ except_handler
    \/ propagate

Spec == Init /\ [][Next]_vars

(***************************************************************************)
(* Vocabulary of the properties.  These definitions state what the         *)
(* specification says; they do not model code.                             *)
(***************************************************************************)
Keywords ==
    { <<"u","n","i","v","e","r","s","i","t","y">>,
      <<"c","o","l","l","e","g","e">>,
      <<"i","n","s","t","i","t","u","t","e">>,
      <<"l","a","b">>,
      <<"s","c","h","o","o","l">> }

\* text contains the (lower-case) word w as a substring, ignoring case
ContainsIgnoringCase(text, w) ==
    \E p \in 1..(Len(text) - Len(w) + 1) :
        \A q \in 1..Len(w) : Lower(text[p + q - 1]) = w[q]

HasKeyword(text) == \E w \in Keywords : ContainsIgnoringCase(text, w)

\* The affiliation string of an author; a missing one counts as empty.
AffiliationText(author) ==
    IF "affiliation" \in DOMAIN author THEN author["affiliation"].s ELSE << >>
NameText(author) ==
    IF "name" \in DOMAIN author THEN author["name"].s ELSE << >>

\* The summary and the author list the service sent for the n-th identifier.
SummaryOf(n) == IF ids[n] \in DOMAIN summaries THEN summaries[ids[n]] ELSE EmptyDict
AuthorsOf(n) ==
    IF "authors" \in DOMAIN SummaryOf(n) THEN SummaryOf(n)["authors"] ELSE << >>

NonAcademic(author) == ~HasKeyword(AffiliationText(author))
NonAcademicOf(n) == SelectSeq(AuthorsOf(n), NonAcademic)

NamesField(paper) == Field(paper, "Non-academic Author(s)")
CompaniesField(paper) == Field(paper, "Company Affiliation(s)")

\* The pc values at which fetch_paper_details has returned to main.
DetailsReturned == {"returned", "save_to_csv", "writeheader", "writerows",
                    "print", "try_done"}

\* s.split("; "): the entries of a joined string.
RECURSIVE FirstSeparator(_, _)
FirstSeparator(s, p) ==
    IF p + 1 > Len(s) THEN 0
    ELSE IF s[p] = ";" /\ s[p + 1] = " " THEN p
    ELSE FirstSeparator(s, p + 1)

RECURSIVE Split(_)
Split(s) ==
    LET p == FirstSeparator(s, 1) IN
    IF p = 0 THEN <<s>>
    ELSE <<SubSeq(s, 1, p - 1)>> \o Split(SubSeq(s, p + 2, Len(s)))

\* The entries a field holds: none when it is null.
Entries(v) == IF IsNone(v) THEN << >> ELSE Split(v.s)

(***************************************************************************)
(* C1: whenever fetch_paper_details has returned, papers holds exactly one *)
(* record per identifier, in the order of the identifiers, record n        *)
(* carrying PubmedID = identifier n; while the loop runs, papers is the    *)
(* corresponding prefix.                                                   *)
(***************************************************************************)
C1_OneRecordPerId ==
    /\ Len(papers) <= Len(ids)
    /\ \A n \in 1..Len(papers) : Field(papers[n], "PubmedID") = Str(ids[n])
    /\ pc \in DetailsReturned => Len(papers) = Len(ids)

\* Two identifiers, the first one missing from 'result', the second present.
C1_Witness ==
    /\ pc = "returned"
    /\ Len(ids) = 2
    /\ ids[1] \notin DOMAIN summaries
    /\ ids[2] \in DOMAIN summaries
    /\ Len(papers) = 2

(***************************************************************************)
(* C2: every author the loop of lines 51-56 gets through is left out of    *)
(* the non-academic lists if and only if the affiliation contains, case-   *)
(* insensitively, one of the five keywords; every other author, an empty   *)
(* or missing affiliation included, is appended to both lists.             *)
(***************************************************************************)
C2_Classification ==
    [][ (pc = "for_author" /\ j' = j + 1) =>
          LET author == authors[j] IN
          IF HasKeyword(AffiliationText(author))
          THEN /\ non_academic_authors' = non_academic_authors
               /\ companies' = companies
          ELSE /\ non_academic_authors' = Append(non_academic_authors, NameText(author))
               /\ companies' = Append(companies, AffiliationText(author))
      ]_vars

\* An upper-case keyword was taken as academic and a missing affiliation as
\* non-academic.
C2_Witness ==
    /\ pc = "for_author"
    /\ authors = <<AuthorRoy, AuthorLee>>
    /\ j = 3
    /\ non_academic_authors = <<NameText(AuthorLee)>>
    /\ companies = << << >> >>

(***************************************************************************)
(* C3 as the specification states it: in every record the two fields hold  *)
(* the same number of "; "-joined entries, entry e of both comes from the  *)
(* e-th non-academic author, and one field is null iff the other is.       *)
(***************************************************************************)
C3_AsStated ==
    \A n \in 1..Len(papers) :
        LET names == NamesField(papers[n])
            comps == CompaniesField(papers[n])
            na == NonAcademicOf(n)
        IN /\ Len(Entries(names)) = Len(Entries(comps))
           /\ IsNone(names) <=> IsNone(comps)
           /\ \A e \in 1..Len(Entries(names)) :
                  /\ e <= Len(na)
                  /\ Entries(names)[e] = NameText(na[e])
                  /\ Entries(comps)[e] = AffiliationText(na[e])

\* A field holding the "; "-join of `parts`: null when that join is the
\* empty string (no part, or a single empty part), else its entries are
\* the parts.
HoldsJoinOf(v, parts) ==
    IF parts = << >> \/ parts = << << >> >>
    THEN IsNone(v)
    ELSE ~IsNone(v) /\ Split(v.s) = parts

(***************************************************************************)
(* C3, amended: the two fields are the "; "-joins of the names and of the  *)
(* affiliations of the same non-academic authors, in input author order;   *)
(* each field is null exactly when its own join is the empty string.       *)
(***************************************************************************)
C3_ParallelJoins ==
    \A n \in 1..Len(papers) :
        LET na == NonAcademicOf(n) IN
        /\ HoldsJoinOf(NamesField(papers[n]), [e \in 1..Len(na) |-> NameText(na[e])])
        /\ HoldsJoinOf(CompaniesField(papers[n]),
                       [e \in 1..Len(na) |-> AffiliationText(na[e])])

\* The record of a paper with an academic author followed by a non-academic
\* one whose affiliation is blank: only the names field is set.
C3_Witness ==
    \E n \in 1..Len(papers) :
        /\ Len(AuthorsOf(n)) = 2
        /\ Len(NonAcademicOf(n)) = 1
        /\ ~IsNone(NamesField(papers[n]))
        /\ IsNone(CompaniesField(papers[n]))

(***************************************************************************)
(* C4: in every record both fields are null whenever the paper has no      *)
(* author classified non-academic (in particular with an empty or missing  *)
(* author list), and neither field ever holds the empty string.            *)
(***************************************************************************)
C4_NullNeverEmpty ==
    \A n \in 1..Len(papers) :
        /\ NonAcademicOf(n) = << >> =>
              IsNone(NamesField(papers[n])) /\ IsNone(CompaniesField(papers[n]))
        /\ NamesField(papers[n]) # Str(<< >>)
        /\ CompaniesField(papers[n]) # Str(<< >>)

\* Records of a paper whose authors are all academic, of a paper without
\* an author list, and of one whose joined affiliations are empty.
C4_Witness ==
    /\ \E n \in 1..Len(papers) :
          /\ AuthorsOf(n) # << >>
          /\ NonAcademicOf(n) = << >>
          /\ IsNone(NamesField(papers[n]))
    /\ \E n \in 1..Len(papers) :
          /\ "authors" \notin DOMAIN SummaryOf(n)
          /\ IsNone(CompaniesField(papers[n]))

(***************************************************************************)
(* More vocabulary: what a run has logged, requested and emitted.          *)
(***************************************************************************)
Logged(level) == \E n \in 1..Len(log) : log[n][1] = level
LastLogged(level) == log # << >> /\ log[Len(log)][1] = level

Urls == [n \in 1..Len(requests) |-> requests[n].url]

\* A transport failure or a non-success status came back for request n.
RequestFailed(n) == requests[n].raises \/ requests[n].status >= 400

\* The sink has begun: the file was opened or written, or a record printed.
SinkActed == handle # "none" \/ file # NoFile \/ stdout # << >>

\* An error (anything but the SystemExit of sys.exit) is being propagated.
ErrorRaised == pc = "raised" /\ exc.cls # "SystemExit"

FieldNames ==
    <<"PubmedID", "Title", "Publication Date", "Non-academic Author(s)",
      "Company Affiliation(s)", "Corresponding Author Email">>

\* The text of a field as the CSV holds it: null is written as ''.
Written(v) == IF v = None THEN << >> ELSE v.s

\* The rows of the complete CSV file for the records of this run.
ExpectedRows ==
    <<FieldNames>> \o
      [n \in 1..Len(papers) |->
          [f \in 1..Len(FieldNames) |-> Written(Field(papers[n], FieldNames[f]))]]

IsPrefix(a, b) == Len(a) <= Len(b) /\ a = SubSeq(b, 1, Len(a))

\* The state of a run that has ended.
C5_ExitState ==
    pc = "exited" =>
        /\ exit_status \in {<<0>>, <<1>>}
        /\ exit_status = <<1>> => LastLogged("ERROR")
        /\ exit_status = <<0>> =>
              /\ ~Logged("ERROR")
              /\ IF papers = << >>
                 THEN LastLogged("WARNING") /\ ~SinkActed
                 ELSE IF Truthy(args.file)
                 THEN file = FileWith(ExpectedRows) /\ handle = "closed"
                 ELSE stdout = papers

C6_ZeroIdsExitZero ==
    (pc = "exited" /\ Len(requests) = 2 /\ ids = << >>) =>
        /\ exit_status = <<0>>
        /\ Logged("WARNING")
        /\ ~SinkActed

(***************************************************************************)
(* C7: the search endpoint is requested at most once and then the summary  *)
(* endpoint at most once, the summary request only after a successful      *)
(* search request; the sink acts only after both requests succeeded; after *)
(* a failed request no further request is made, nothing is printed or      *)
(* written, and the run ends with exit code 1.                             *)
(***************************************************************************)
C7_Sequential ==
    /\ IsPrefix(Urls, <<"esearch", "esummary">>)
    /\ Len(requests) = 2 => ~RequestFailed(1)
    /\ SinkActed => Len(requests) = 2 /\ ~RequestFailed(1) /\ ~RequestFailed(2)
    /\ \A n \in 1..Len(requests) :
          RequestFailed(n) =>
              /\ n = Len(requests)
              /\ ~SinkActed
              /\ pc \in {"raised", "exited"}
              /\ pc = "exited" => exit_status = <<1>>

\* The summary request came back with a non-success status and the run
\* has ended.
C7_Witness ==
    /\ pc = "exited"
    /\ Len(requests) = 2
    /\ ~requests[2].raises
    /\ requests[2].status >= 400
    /\ ids # << >>

(***************************************************************************)
(* C8: save_to_csv is never entered with zero records; what it has written *)
(* is always a prefix of the header row (the six field names in their      *)
(* fixed order) followed by one row per record in record order, and when   *)
(* it returns the file holds exactly these rows.                           *)
(***************************************************************************)
C8_CsvRows ==
    /\ pc \in {"save_to_csv", "writeheader", "writerows"} => papers # << >>
    /\ file # NoFile => papers # << >> /\ IsPrefix(file.rows, ExpectedRows)
    /\ (pc = "try_done" /\ Truthy(args.file)) => file = FileWith(ExpectedRows)

\* Two records, one of them with null fields, have been written.
C8_Witness ==
    /\ pc = "try_done"
    /\ Truthy(args.file)
    /\ Len(papers) = 2
    /\ Len(file.rows) = 3
    /\ \E n \in 1..2 : NamesField(papers[n]) = None
    /\ \E n \in 1..2 : NamesField(papers[n]) # None

(***************************************************************************)
(* C9: the file handle is open only while save_to_csv is writing; once     *)
(* save_to_csv has returned or raised, and when the process has exited,    *)
(* the handle is not open.                                                 *)
(***************************************************************************)
C9_HandleClosed ==
    /\ handle = "open" => pc \in {"writeheader", "writerows"}
    /\ pc \in {"raised", "try_done", "exited"} => handle # "open"
    /\ file # NoFile => handle # "none"

\* A row could not be written: the exception is on its way and the file
\* that was opened is closed.
C9_Witness ==
    /\ pc = "raised"
    /\ exc = Exc("OSError")
    /\ handle = "closed"
    /\ file # NoFile
    /\ Len(file.rows) >= 1

\* The records appended so far.
C10_State ==
    \A n \in 1..Len(papers) :
        /\ ids[n] \notin DOMAIN summaries =>
              \A f \in 2..Len(FieldNames) : Field(papers[n], FieldNames[f]) = None
        /\ ("elocationid" \notin DOMAIN SummaryOf(n)
              \/ SummaryOf(n)["elocationid"] = Str(<< >>)) =>
              Field(papers[n], "Corresponding Author Email") = None

(***************************************************************************)
(* C10: an identifier that is absent from 'result' (or whose 'result' is   *)
(* missing altogether) never makes its loop iteration raise, and its       *)
(* record has Title, Publication Date, Non-academic Author(s), Company     *)
(* Affiliation(s) and Corresponding Author Email all null; the email is    *)
(* null as well whenever elocationid is absent or empty.                   *)
(***************************************************************************)
C10_AbsentIsNull ==
    /\ []C10_State
    /\ [][ (pc \in {"for_pid", "for_author"} /\ i <= Len(ids)
              /\ ids[i] \notin DOMAIN summaries) =>
            pc' \in {"for_author", "for_pid"} ]_vars

\* The first id is absent from 'result', the second has an empty
\* elocationid; both records are there.
C10_Witness ==
    /\ pc = "returned"
    /\ Len(papers) = 2
    /\ ids[1] \notin DOMAIN summaries
    /\ ids[2] \in DOMAIN summaries
    /\ "elocationid" \in DOMAIN SummaryOf(2)
    /\ SummaryOf(2)["elocationid"] = Str(<< >>)
    /\ Field(papers[2], "Title") # None

====
